---- MODULE Spec2Model ----
(***************************************************************************)
(* Authentication and identity verification of the atproto servers:        *)
(*   - ServerAuth, the local token authority of the pds                    *)
(*     (packages/pds/src/auth.ts);                                         *)
(*   - authVerifier / authOptionalVerifier / verifyJwt, the federated      *)
(*     verifier of the bsky app view (packages/bsky/src/auth.ts);          *)
(*   - DidSqlCache, the did document cache (packages/bsky/src/did-cache.ts)*)
(*                                                                         *)
(* Each component has its own specification over the shared clock `now`    *)
(* (Date.now(), in milliseconds): SpecLocal, SpecVerifiers, SpecAdmin,     *)
(* SpecFed, SpecFlight, SpecService, SpecCache and SpecRace.  The         *)
(* variables of the other components stay at their initial value.         *)
(***************************************************************************)
EXTENDS Integers, Sequences, FiniteSets, TLC

VARIABLES
    now,        \* Date.now(): the wall clock, in milliseconds
    jwt,        \* local: the token last issued by createAccessToken / createRefreshToken
    verified,   \* local: the verifyToken call that has just returned: token,
                \* allow-list, time, outcome (none once anything else happens)
    adminReq,   \* admin: the Authorization header of the request given to verifyAdmin
    adminRes,   \* admin: what verifyAdmin did with it
    ttl,        \* cache: DidSqlCache.ttl, in milliseconds
    rows,       \* cache: the rows of the did_cache table
    puts,       \* cache: the cacheDid calls whose upsert the store has not applied yet
    get,        \* cache: the checkCache call that has just returned (none once
                \* anything else happens)
    called,     \* cache: the identities cacheDid has been called for
    lastPut,    \* cache: per identity, the put applied last, when it followed
                \* an earlier put of the identity that had been applied
    wiped,      \* cache: the identities a clear removed and no put restored since
    proc,       \* federated: per caller, the authVerifier call it is in
    calls,      \* federated: the resolutions of the resolver that are in flight
    vcall,      \* local: the verifier or verifyUser call that has just ended
                \* (none once anything else happens)
    svcJwt      \* service: the token last made by createServiceJwt

adminVars == <<adminReq, adminRes>>
cacheVars == <<ttl, rows, puts, get, called, lastPut, wiped>>
fedVars == <<proc, calls>>
vars == <<now, jwt, verified, adminReq, adminRes,
          ttl, rows, puts, get, called, lastPut, wiped, proc, calls,
          vcall, svcJwt>>

(***************************************************************************)
(* The clock.                                                              *)
(***************************************************************************)
MsPerSec == 1000

\* The last whole second the clock reaches.
MaxSec == 2

\* The callers that can be inside the federated verifier at once.
MaxCallers == 2

\* The instants the clock is read at: the start of each second, one
\* millisecond into it and its last millisecond.
ClockPoints ==
    {s * MsPerSec + o : s \in 0..MaxSec, o \in {0, 1, MsPerSec - 1}}

\* Math.floor(ms / 1000)
FloorSec(ms) == ms \div MsPerSec

\* Time passes: the clock moves to a later instant.
TickTo ==
    /\ \E t \in ClockPoints : t > now /\ now' = t
    /\ vcall' = [kind |-> "none"]
    /\ verified' = [kind |-> "none"]
    /\ UNCHANGED <<svcJwt, jwt, adminVars, cacheVars, fedVars>>

(***************************************************************************)
(* ServerAuth: locally signed session tokens.                              *)
(***************************************************************************)
Access == "com.atproto.access"
Refresh == "com.atproto.refresh"
AppPass == "com.atproto.appPass"
AuthScope == {Access, Refresh, AppPass}

\* opts.jwtSecret, and a secret the server does not hold.
JwtSecret == "jwtSecret"
OtherSecret == "otherSecret"

Dids == {"did:plc:alice", "did:plc:bob"}

\* The default lifetimes, '120mins' and '90days', in seconds.
AccessTtlSec == 7200
RefreshTtlSec == 7776000

\* The largest lifetime (seconds) a caller passes as opts.expiresIn.
MaxExpiresIn == 2

\* opts.expiresIn: a number of seconds, or a string such as '120mins'.
Seconds(n) == [type |-> "number", value |-> n]
Span(text) == [type |-> "string", value |-> text]

ExpiresInChoices ==
    {Seconds(n) : n \in 0..MaxExpiresIn} \cup {Span("120mins"), Span("90days")}

\* jsonwebtoken's timespan(): a number is seconds, a string goes through ms().
Timespan(expiresIn) ==
    IF expiresIn.type = "number" THEN expiresIn.value
    ELSE IF expiresIn.value = "120mins" THEN AccessTtlSec
    ELSE RefreshTtlSec

NoToken == [kind |-> "none"]

\* A string that is no JWT at all.
GarbageToken == [kind |-> "garbage"]

\* jwt.sign(payload, secret, {expiresIn, mutatePayload}): iat is the current
\* second, exp = iat + expiresIn.
JwtSign(payload, secret, expiresIn, t) ==
    [kind |-> "object", secret |-> secret, scope |-> payload.scope,
     sub |-> payload.sub, jti |-> payload.jti,
     exp |-> FloorSec(t) + Timespan(expiresIn)]

\* A token whose payload is a bare string, signed with `secret`.
StringToken(secret) == [kind |-> "string", secret |-> secret]

createAccessToken(did, scope, expiresIn, t) ==
    JwtSign([scope |-> scope, sub |-> did, jti |-> "none"], JwtSecret, expiresIn, t)

createRefreshToken(did, jti, expiresIn, t) ==
    JwtSign([scope |-> Refresh, sub |-> did, jti |-> jti], JwtSecret, expiresIn, t)

\* jwt.verify with the expiry test off by one (clockTimestamp > exp).
JwtVerifyExpGt(token, secret, t) ==
    IF token.kind \in {"garbage", "none"}
      THEN [threw |-> "JsonWebTokenError"]
    ELSE IF token.secret # secret
      THEN [threw |-> "JsonWebTokenError"]
    ELSE IF token.kind = "string"
      THEN [threw |-> "none", payload |-> token]
    ELSE IF FloorSec(t) > token.exp
      THEN [threw |-> "TokenExpiredError"]
    ELSE [threw |-> "none", payload |-> token]

\* jwt.verify(token, secret): the signature first, then the expiry
\* (clockTimestamp >= exp is expired).  It throws or returns the payload.
JwtVerify(token, secret, t) ==
    IF token.kind \in {"garbage", "none"}
      THEN [threw |-> "JsonWebTokenError"]
    ELSE IF token.secret # secret
      THEN [threw |-> "JsonWebTokenError"]
    ELSE IF token.kind = "string"
      THEN [threw |-> "none", payload |-> token]
    ELSE IF FloorSec(t) >= token.exp
      THEN [threw |-> "TokenExpiredError"]
    ELSE [threw |-> "none", payload |-> token]

\* The scope test without its scopes.length > 0 guard.
BadScopeAlways(scopes, payload) == payload.scope \notin scopes

\* scopes.length > 0 && !scopes.includes(payload.scope)
BadScope(scopes, payload) == scopes # {} /\ payload.scope \notin scopes

Failure(name) == [ok |-> FALSE, error |-> "InvalidRequestError", name |-> name]

\* The try block of verifyToken: what it throws, or the payload it returns.
VerifyTokenTry(token, scopes, t) ==
    LET v == JwtVerify(token, JwtSecret, t) IN
    IF v.threw # "none" THEN v
    ELSE IF v.payload.kind = "string" THEN [threw |-> "InvalidRequestError"]
    ELSE IF BadScope(scopes, v.payload) THEN [threw |-> "InvalidRequestError"]
    ELSE v

\* verifyToken: the catch block maps TokenExpiredError to ExpiredToken and
\* everything else, its own InvalidRequestError included, to InvalidToken.
verifyToken(token, scopes, t) ==
    LET r == VerifyTokenTry(token, scopes, t) IN
    IF r.threw = "none" THEN [ok |-> TRUE, payload |-> r.payload]
    ELSE IF r.threw = "TokenExpiredError" THEN Failure("ExpiredToken")
    ELSE Failure("InvalidToken")

Jtis == {"jti1"}

NotVerified == [kind |-> "none"]

\* createAccessToken({did, scope, expiresIn})
CreateAccessToken ==
    /\ \E did \in Dids, scope \in AuthScope, e \in ExpiresInChoices :
         jwt' = createAccessToken(did, scope, e, now)
    /\ vcall' = [kind |-> "none"]
    /\ verified' = NotVerified
    /\ UNCHANGED <<svcJwt, now, adminVars, cacheVars, fedVars>>

\* createRefreshToken({did, jti, expiresIn})
CreateRefreshToken ==
    /\ \E did \in Dids, jti \in Jtis, e \in ExpiresInChoices :
         jwt' = createRefreshToken(did, jti, e, now)
    /\ vcall' = [kind |-> "none"]
    /\ verified' = NotVerified
    /\ UNCHANGED <<svcJwt, now, adminVars, cacheVars, fedVars>>

\* The tokens a caller can hand to verifyToken: the issued one, the same
\* payload signed with another secret, a string payload, and garbage.
Presentable ==
    {GarbageToken, StringToken(JwtSecret), StringToken(OtherSecret)}
    \cup (IF jwt = NoToken THEN {} ELSE {jwt, [jwt EXCEPT !.secret = OtherSecret]})

\* verifyToken(token, scopes)
VerifyToken ==
    /\ \E token \in Presentable, scopes \in SUBSET AuthScope :
         verified' = [kind |-> "call", token |-> token, scopes |-> scopes,
                      at |-> now, out |-> verifyToken(token, scopes, now)]
    /\ UNCHANGED <<vcall, svcJwt, now, jwt, adminVars, cacheVars, fedVars>>

\* The components a specification leaves alone.
LocalIdle == jwt = NoToken /\ verified = NotVerified
AdminIdle == adminReq = [scheme |-> "absent"] /\ adminRes = [kind |-> "none"]
CacheIdle ==
    /\ ttl = 0
    /\ rows = {}
    /\ puts = {}
    /\ get = [kind |-> "none"]
    /\ called = {}
    /\ lastPut = [d \in Dids |-> [kind |-> "none"]]
    /\ wiped = {}
FedIdle ==
    /\ proc = [p \in 1..MaxCallers |-> [pc |-> "idle"]]
    /\ calls = {}
VerifiersIdle == vcall = [kind |-> "none"]
ServiceIdle == svcJwt = [kind |-> "none"]

InitLocal ==
    /\ now = 0
    /\ jwt = NoToken
    /\ verified = NotVerified
    /\ AdminIdle
    /\ CacheIdle
    /\ FedIdle
    /\ VerifiersIdle
    /\ ServiceIdle

NextLocal ==
    \/ TickTo
    \/ CreateAccessToken
    \/ CreateRefreshToken
    \/ VerifyToken

SpecLocal == InitLocal /\ [][NextLocal]_vars

\* The last verifyToken call was given a token this server issued.
VerifiedIssued ==
    /\ verified.kind = "call"
    /\ verified.token.kind = "object"
    /\ verified.token.secret = JwtSecret

\* C1: a token issued with a scope and verified before its expiry is accepted
\* when the allow-list is empty or contains its scope, and is rejected with
\* InvalidToken when the allow-list is non-empty and lacks its scope.
C1_ScopeAllowList ==
    (VerifiedIssued /\ FloorSec(verified.at) < verified.token.exp) =>
        /\ (verified.scopes = {} \/ verified.token.scope \in verified.scopes)
             => verified.out = [ok |-> TRUE, payload |-> verified.token]
        /\ (verified.scopes # {} /\ verified.token.scope \notin verified.scopes)
             => verified.out = Failure("InvalidToken")

C1_Witness ==
    /\ VerifiedIssued
    /\ FloorSec(verified.at) < verified.token.exp
    /\ verified.scopes = {}
    /\ verified.token.scope = AppPass
    /\ verified.out.ok

\* C2: an issued token whose expiry has passed (the expiry instant included)
\* makes verifyToken fail with ExpiredToken, whatever its scope and the
\* allow-list.
C2_ExpiredAlways ==
    (VerifiedIssued /\ FloorSec(verified.at) >= verified.token.exp) =>
        verified.out = Failure("ExpiredToken")

C2_Witness ==
    /\ VerifiedIssued
    /\ FloorSec(verified.at) > verified.token.exp
    /\ verified.scopes = {Access}
    /\ verified.token.scope = Refresh
    /\ verified.out = Failure("ExpiredToken")
(***************************************************************************)
(* ServerAuth.verifyAdmin and parseBasicAuth.                              *)
(*                                                                         *)
(* A decoded credential is a sequence of symbols: ":" is the colon, every  *)
(* other symbol stands for a colon-free piece of text, and adjacent        *)
(* symbols concatenate (<<"admin", "x">> is "adminx").                     *)
(***************************************************************************)
Colon == ":"
Symbols == {"admin", "pw", "x", Colon}

\* The longest decoded credential, in symbols.
MaxCredLen == 4

Texts == UNION {[1..n -> Symbols] : n \in 0..MaxCredLen}

\* opts.adminPass
AdminPass == <<"pw">>

\* The Authorization headers verifyAdmin is called with: none, another
\* scheme, Basic with text that is not base64, Basic with encoded text.
AdminHeaders ==
    {[scheme |-> "absent"], [scheme |-> "Bearer "],
     [scheme |-> "Basic ", b64 |-> "invalid"]}
    \cup {[scheme |-> "Basic ", b64 |-> "valid", text |-> t] : t \in Texts}

\* String.prototype.split(':'): the fields between the colons; the empty
\* string splits to one empty field.
RECURSIVE SplitFrom(_, _, _)
SplitFrom(text, i, fields) ==
    IF i > Len(text) THEN fields
    ELSE IF text[i] = Colon
      THEN SplitFrom(text, i + 1, Append(fields, <<>>))
    ELSE SplitFrom(text, i + 1,
           [fields EXCEPT ![Len(fields)] = Append(fields[Len(fields)], text[i])])

Split(text) == SplitFrom(text, 1, << <<>> >>)

\* ui8.toString(ui8.fromString(b64, 'base64pad'), 'utf8'): throws on text
\* that is not base64.
Base64PadDecode(header) ==
    IF header.b64 = "valid" THEN [threw |-> FALSE, text |-> header.text]
    ELSE [threw |-> TRUE]

NoBasicAuth == [parsed |-> FALSE]

\* parseBasicAuth(token): null, or the first two fields of the decoded text.
parseBasicAuth(header) ==
    IF header.scheme # "Basic " THEN NoBasicAuth
    ELSE LET d == Base64PadDecode(header) IN
         IF d.threw THEN NoBasicAuth
         ELSE LET fields == Split(d.text) IN
              IF Len(fields) < 2 \/ fields[1] = <<>> \/ fields[2] = <<>>
                THEN NoBasicAuth
              ELSE [parsed |-> TRUE, username |-> fields[1], password |-> fields[2]]

Returned(v) == [kind |-> "returned", value |-> v]
Threw(e) == [kind |-> "threw", error |-> e]

\* verifyAdmin(req)
verifyAdmin(header) ==
    LET parsed == parseBasicAuth(header) IN
    IF ~parsed.parsed THEN Returned(FALSE)
    ELSE IF parsed.username # <<"admin">> THEN Returned(FALSE)
    ELSE IF parsed.password # AdminPass THEN Returned(FALSE)
    ELSE Returned(TRUE)

VerifyAdmin ==
    /\ adminRes.kind = "none"
    /\ adminRes' = verifyAdmin(adminReq)
    /\ UNCHANGED <<vcall, svcJwt, now, jwt, verified, adminReq, cacheVars, fedVars>>

\* The next request arrives.
AdminRequest ==
    /\ adminRes.kind # "none"
    /\ adminReq' \in AdminHeaders
    /\ adminRes' = [kind |-> "none"]
    /\ UNCHANGED <<vcall, svcJwt, now, jwt, verified, cacheVars, fedVars>>

InitAdmin ==
    /\ now = 0
    /\ LocalIdle
    /\ adminReq \in AdminHeaders
    /\ adminRes = [kind |-> "none"]
    /\ CacheIdle
    /\ FedIdle
    /\ VerifiersIdle
    /\ ServiceIdle

NextAdmin == VerifyAdmin \/ AdminRequest

SpecAdmin == InitAdmin /\ [][NextAdmin]_vars

\* The username:password pair of a Basic header: the text before the first
\* colon and everything after it.
ExactAdminPair ==
    /\ adminReq.scheme = "Basic "
    /\ adminReq.b64 = "valid"
    /\ adminReq.text = <<"admin", Colon>> \o AdminPass

\* C5: verifyAdmin never raises, and returns true only for the Basic pair
\* ("admin", adminPass) exactly; a password that goes on after a ':' is
\* another pair.
C5_AdminExactPair ==
    adminRes.kind # "none" =>
        /\ adminRes.kind = "returned"
        /\ adminRes.value => ExactAdminPair
(***************************************************************************)
(* DidSqlCache: the did_cache table behind cacheDid, checkCache and clear. *)
(* The clock of this component moves one millisecond at a time.            *)
(***************************************************************************)
\* The last millisecond the cache's clock reaches.
MaxCacheNow == 2

\* The largest ttl (milliseconds) the cache is constructed with.
MaxTtl == 1

\* The cacheDid calls that can be waiting for the store at once.
MaxPuts == 1

\* The did documents; a document is opaque to the cache.
Docs == {"doc1", "doc2"}

NoRow == [kind |-> "none"]
NoPut == [kind |-> "none"]

RowsOf(table, did) == {r \in table : r.did = did}

\* INSERT without the ON CONFLICT clause, into a table that accepts it.
UpsertNoConflict(table, p) ==
    table \cup {[kind |-> "row", did |-> p.did, doc |-> p.doc,
                 updatedAt |-> p.insertAt]}

\* An upsert whose update writes the document and keeps the older of the two
\* timestamps.
UpsertKeepStamp(table, p) ==
    IF RowsOf(table, p.did) # {}
      THEN {IF r.did = p.did /\ r.updatedAt < p.updateAt
              THEN [r EXCEPT !.doc = p.doc]
              ELSE IF r.did = p.did
                THEN [r EXCEPT !.doc = p.doc, !.updatedAt = p.updateAt]
              ELSE r : r \in table}
    ELSE table \cup {[kind |-> "row", did |-> p.did, doc |-> p.doc,
                      updatedAt |-> p.insertAt]}

\* INSERT ... VALUES (did, doc, updatedAt) ON CONFLICT (did) DO UPDATE SET
\* doc, updatedAt: the row of the identity is overwritten, or inserted.
Upsert(table, p) ==
    IF RowsOf(table, p.did) # {}
      THEN {IF r.did = p.did
              THEN [r EXCEPT !.doc = p.doc, !.updatedAt = p.updateAt]
              ELSE r : r \in table}
    ELSE table \cup {[kind |-> "row", did |-> p.did, doc |-> p.doc,
                      updatedAt |-> p.insertAt]}

\* DELETE that spares the rows whose ttl has not elapsed.
DeleteExpired(table) == {r \in table : ~(now > r.updatedAt + ttl)}

\* DELETE FROM did_cache
DeleteAll(table) == {}

\* new Date(updatedAt).getTime(): whole milliseconds come back unchanged.
DateGetTime(ms) == ms

\* The result of checkCache with the expiry test off by one (>=).
CheckCacheResultGe(res, t) ==
    IF res = NoRow THEN [kind |-> "null"]
    ELSE [kind |-> "CacheResult", doc |-> res.doc,
          updatedAt |-> DateGetTime(res.updatedAt), did |-> res.did,
          expired |-> t >= DateGetTime(res.updatedAt) + ttl]

\* The result checkCache builds from the selected row at time t.
CheckCacheResult(res, t) ==
    IF res = NoRow THEN [kind |-> "null"]
    ELSE [kind |-> "CacheResult", doc |-> res.doc,
          updatedAt |-> DateGetTime(res.updatedAt), did |-> res.did,
          expired |-> t > DateGetTime(res.updatedAt) + ttl]

\* A read that evicts the row it finds expired.
SelectEvicting(table, res, t) ==
    IF res # NoRow /\ t > res.updatedAt + ttl THEN table \ {res} ELSE table

\* The table after SELECT * FROM did_cache WHERE did = ...: a read of row
\* `res`, no write follows it in checkCache.
Select(table, res, t) == table

\* A returned checkCache result is gone once the next operation runs.
GetAfter == [kind |-> "none"]

TickMs ==
    /\ now < MaxCacheNow
    /\ now' = now + 1
    /\ get' = GetAfter
    /\ UNCHANGED <<vcall, svcJwt, jwt, verified, adminVars, fedVars, ttl, rows, puts, called, lastPut, wiped>>

\* cacheDid(did, doc) up to its await: the query is built, reading the clock
\* once for the values and once for the update, and handed to the store.
CacheDidCallFor(limit, dids) ==
    /\ Cardinality(puts) < limit
    /\ \E did \in dids, doc \in Docs, t \in {now, now + 1} :
         /\ t <= MaxCacheNow
         /\ now' = t
         /\ puts' = puts \cup
              {[kind |-> "put", did |-> did, doc |-> doc, insertAt |-> now,
                updateAt |-> t,
                alone |-> \A q \in puts : q.did # did]}
         /\ called' = called \cup {did}
    /\ get' = GetAfter
    /\ UNCHANGED <<vcall, svcJwt, jwt, verified, adminVars, fedVars, ttl, rows, lastPut, wiped>>

CacheDidCall == CacheDidCallFor(MaxPuts, Dids)

\* The store applies the upsert of a cacheDid call, which then returns.
CacheDidApply ==
    \E p \in puts :
        /\ rows' = Upsert(rows, p)
        /\ puts' = puts \ {p}
        /\ lastPut' = [lastPut EXCEPT ![p.did] =
                         IF RowsOf(rows, p.did) # {} /\ p.alone
                           THEN [kind |-> "put", doc |-> p.doc,
                                 updateAt |-> p.updateAt]
                           ELSE NoPut]
        /\ wiped' = wiped \ {p.did}
        /\ get' = GetAfter
        /\ UNCHANGED <<vcall, svcJwt, now, jwt, verified, adminVars, fedVars, ttl, called>>

\* checkCache(did): the store runs the select and hands back the first row
\* of the identity, if any; after the await, at a time t that is now or
\* later, the clock is read and the result returned.
CheckCache ==
    /\ \E did \in Dids, t \in now..MaxCacheNow :
         \E res \in (IF RowsOf(rows, did) = {} THEN {NoRow} ELSE RowsOf(rows, did)) :
             /\ now' = t
             /\ rows' = Select(rows, res, t)
             /\ get' = [kind |-> "returned", did |-> did, res |-> res,
                        calledBefore |-> did \in called,
                        wipedBefore |-> did \in wiped,
                        at |-> t, out |-> CheckCacheResult(res, t)]
    /\ UNCHANGED <<vcall, svcJwt, jwt, verified, adminVars, fedVars, ttl, puts, called,
                   lastPut, wiped>>

\* clear(): the store deletes every row.
Clear ==
    /\ rows' = DeleteAll(rows)
    /\ wiped' = wiped \cup {r.did : r \in rows}
    /\ lastPut' = [d \in Dids |-> NoPut]
    /\ get' = GetAfter
    /\ UNCHANGED <<vcall, svcJwt, now, jwt, verified, adminVars, fedVars, ttl, puts, called>>

InitCache ==
    /\ now = 0
    /\ LocalIdle
    /\ AdminIdle
    /\ FedIdle
    /\ VerifiersIdle
    /\ ServiceIdle
    /\ ttl \in 0..MaxTtl
    /\ rows = {}
    /\ puts = {}
    /\ get = [kind |-> "none"]
    /\ called = {}
    /\ lastPut = [d \in Dids |-> NoPut]
    /\ wiped = {}

NextCache ==
    \/ TickMs
    \/ CacheDidCall
    \/ CacheDidApply
    \/ CheckCache
    \/ Clear

SpecCache == InitCache /\ [][NextCache]_vars

\* C6: checkCache returns null for an identity cacheDid was never called
\* for; for a stored entry it returns the entry, not expired at the instant
\* of its updatedAt and up to updatedAt + ttl inclusive, expired after.
C6_GetAfterPut ==
    get.kind = "returned" =>
        /\ ~get.calledBefore => get.out = [kind |-> "null"]
        /\ get.res # NoRow =>
             /\ get.out.kind = "CacheResult"
             /\ get.out.did = get.did
             /\ get.out.doc = get.res.doc
             /\ get.out.updatedAt = get.res.updatedAt
             /\ get.at = get.res.updatedAt => ~get.out.expired
             /\ get.at <= get.res.updatedAt + ttl => ~get.out.expired
             /\ get.at > get.res.updatedAt + ttl => get.out.expired

C6_Witness ==
    /\ get.kind = "returned"
    /\ get.res # NoRow
    /\ ttl > 0
    /\ get.at = get.res.updatedAt + ttl + 1
    /\ get.out.expired

\* C7: the table holds at most one row per identity, and once a put that
\* followed an earlier put of the identity (called after the earlier one had
\* been applied) is applied, that row holds its document and its timestamp.
C7_OneRowLastWrite ==
    \A d \in Dids :
        /\ Cardinality(RowsOf(rows, d)) <= 1
        /\ lastPut[d] # NoPut =>
             RowsOf(rows, d) = {[kind |-> "row", did |-> d, doc |-> lastPut[d].doc,
                                 updatedAt |-> lastPut[d].updateAt]}

C7_Witness ==
    \E d \in Dids :
        /\ lastPut[d] # NoPut
        /\ lastPut[d].doc = "doc2"
        /\ lastPut[d].updateAt > 0
        /\ \E r \in rows : r.did = d /\ r.doc = "doc2"
        /\ \E r \in rows : r.did # d

\* C8: once clear has removed the row of an identity, checkCache returns
\* null for that identity until the upsert of a put for it is applied.
C8_ClearThenAbsent ==
    /\ \A d \in wiped : RowsOf(rows, d) = {}
    /\ (get.kind = "returned" /\ get.wipedBefore) => get.out = [kind |-> "null"]

C8_Witness ==
    /\ get.kind = "returned"
    /\ get.wipedBefore
    /\ get.calledBefore
    /\ rows # {}
    /\ get.out = [kind |-> "null"]

\* A get that found an entry whose ttl has elapsed returns it as it is
\* stored, flagged expired, and the entry is still in the store.
ExpiredStays ==
    (get.kind = "returned" /\ get.res # NoRow
       /\ get.at > get.res.updatedAt + ttl)
        => /\ get.out.expired
           /\ get.out.doc = get.res.doc
           /\ get.out.updatedAt = get.res.updatedAt
           /\ get.res \in rows

\* A step of checkCache leaves the rows alone, and a row leaves the store
\* or changes only when a put for its identity is applied or clear runs.
OnlyPutAndClearWrite ==
    /\ get'.kind = "returned" => rows' = rows
    /\ \A r \in rows \ rows' :
          \/ \E p \in puts \ puts' : p.did = r.did
          \/ rows' = {}
    /\ \A r \in rows' \ rows : \E p \in puts \ puts' : p.did = r.did

\* C17: checkCache never changes the stored rows: an entry whose ttl has
\* elapsed stays in the store and is returned with the same document and
\* updatedAt, flagged expired, until a put for its identity overwrites it or
\* clear wipes the store; nothing but put and clear modifies the store.
C17_GetLeavesStore == [](ExpiredStays) /\ [][OnlyPutAndClearWrite]_vars

\* A get has returned an expired entry that is still stored, next to the
\* entry of another identity.
C17_Witness ==
    /\ get.kind = "returned"
    /\ get.res # NoRow
    /\ get.out.expired
    /\ get.res \in rows
    /\ \E r \in rows : r.did # get.did

(***************************************************************************)
(* Concurrent cacheDid calls for one identity.                             *)
(***************************************************************************)
\* The cacheDid calls for the identity that can wait for the store at once.
MaxRacing == 2

\* The identity the calls race for.
RacedDids == {"did:plc:alice"}

CacheDidRace == CacheDidCallFor(MaxRacing, RacedDids)

NextRace ==
    \/ TickMs
    \/ CacheDidRace
    \/ CacheDidApply

SpecRace == InitCache /\ [][NextRace]_vars

\* The stored updatedAt of an identity does not decrease in a step.
StampNotDecreasing ==
    \A r \in rows : \A q \in rows' : q.did = r.did => q.updatedAt >= r.updatedAt

\* The write applied in a step leaves the row of its identity with the
\* document of that call and a clock reading of that call: the one taken for
\* the update when the row existed, else the one taken for the insert.
WriteFromOneCall ==
    \A p \in puts \ puts' :
        RowsOf(rows', p.did) =
            {[kind |-> "row", did |-> p.did, doc |-> p.doc,
              updatedAt |-> IF RowsOf(rows, p.did) = {} THEN p.insertAt
                            ELSE p.updateAt]}

\* C21 as stated: under any interleaving of concurrent cacheDid calls for
\* one identity, the stored updatedAt never decreases from one applied
\* write to the next, and the row's document and updatedAt come from the
\* same call.
C21_StampMonotonic == [][StampNotDecreasing /\ WriteFromOneCall]_vars

\* C21 amended: under any interleaving of concurrent cacheDid calls for one
\* identity, every applied write sets the row's document and updatedAt from
\* the one call being applied, the updatedAt being a clock reading that call
\* took before the store applied it (so never later than the clock); the
\* stored updatedAt may decrease from one applied write to the next.
C21_RowFromOneCall ==
    [](\A r \in rows : r.updatedAt <= now) /\ [][WriteFromOneCall]_vars

\* The store holds the write of a call that read the clock after a call
\* for the same identity that is still waiting, with another document.
C21_Witness ==
    \E p \in puts : \E r \in rows :
        /\ r.did = p.did
        /\ ~p.alone
        /\ r.doc # p.doc
        /\ r.updatedAt > p.updateAt
(***************************************************************************)
(* The federated verifier: authVerifier, authOptionalVerifier, verifyJwt.  *)
(*                                                                         *)
(* The text after the scheme of an Authorization header is a sequence of   *)
(* pieces: Dot is the '.', Space a blank, every other piece a dot-free     *)
(* stretch of text (a JSON object, a base64url signature, ...).            *)
(***************************************************************************)
Dot == [p |-> "."]
Space == [p |-> " "]

\* JSON.stringify of the header {typ, alg}.
Hdr == [p |-> "header"]

\* JSON.stringify of a payload {iss, exp}.
JsonPayload(iss, exp) == [p |-> "json", iss |-> iss, exp |-> exp]

\* Text that JSON.parse rejects.
NotJson == [p |-> "word"]

\* The base64url text of the signature of `msg` made with the private key
\* of `key`.
Sig(key, msg) == [p |-> "sig", key |-> key, msg |-> msg]

\* Text with characters outside the base64url alphabet.
NotB64 == [p |-> "notb64"]

\* The signing keys of the network; MalformedKey is a did document whose
\* signing key the crypto library cannot parse.
Keys == {"key1", "key2"}
MalformedKey == "malformed"

Payloads == {JsonPayload(d, e) : d \in Dids, e \in 0..MaxSec} \cup {NotJson}

\* header.payload, the text a service token's signature covers.
Signed(payload) == <<Hdr, Dot, payload>>

SigsFor(payload) ==
    {Sig(k, Signed(payload)) : k \in Keys}
    \cup {Sig("key1", Signed(NotJson)), NotB64}

\* A bearer token of three segments, and the other bearer values.
ThreeSegments ==
    UNION {{Signed(pl) \o <<Dot, sg>> : sg \in SigsFor(pl)} :
             pl \in {q \in Payloads : q.p = "json"}}
    \cup {Signed(NotJson) \o <<Dot, Sig("key1", Signed(NotJson))>>}

GoodToken == Signed(JsonPayload("did:plc:alice", MaxSec))
             \o <<Dot, Sig("key1", Signed(JsonPayload("did:plc:alice", MaxSec)))>>

BearerTexts ==
    ThreeSegments
    \cup {<<>>, <<Space>>, <<Hdr>>, Signed(NotJson),
          GoodToken \o <<Dot, NotJson>>, <<Space>> \o GoodToken \o <<Space>>}

AbsentHeader == [kind |-> "absent"]
HeaderValue(scheme, rest) == [kind |-> "value", scheme |-> scheme, rest |-> rest]

\* req.headers.authorization of the requests the verifier is given.
FedHeaders ==
    {AbsentHeader, HeaderValue("", <<>>), HeaderValue("Basic ", <<NotJson>>)}
    \cup {HeaderValue("Bearer ", t) : t \in BearerTexts}

\* The requests of the callers that race for one resolution.
FlightHeaders ==
    {HeaderValue("Bearer ", Signed(JsonPayload(d, MaxSec))
                            \o <<Dot, Sig("key1", Signed(JsonPayload(d, MaxSec)))>>)
       : d \in Dids}

\* String.prototype.trim
RECURSIVE Trim(_)
Trim(text) ==
    IF text = <<>> THEN text
    ELSE IF Head(text) = Space THEN Trim(Tail(text))
    ELSE IF text[Len(text)] = Space THEN Trim(SubSeq(text, 1, Len(text) - 1))
    ELSE text

\* String.prototype.split('.'): the segments between the dots.
RECURSIVE SplitDotsFrom(_, _, _)
SplitDotsFrom(text, i, parts) ==
    IF i > Len(text) THEN parts
    ELSE IF text[i] = Dot
      THEN SplitDotsFrom(text, i + 1, Append(parts, <<>>))
    ELSE SplitDotsFrom(text, i + 1,
           [parts EXCEPT ![Len(parts)] = Append(parts[Len(parts)], text[i])])

SplitDots(text) == SplitDotsFrom(text, 1, << <<>> >>)

NoJwtStr == [null |-> TRUE]

\* getJwtStrFromReq(req): null unless the header starts with 'Bearer '.
getJwtStrFromReq(header) ==
    LET authorization ==
            IF header.kind = "absent" THEN HeaderValue("", <<>>) ELSE header IN
    IF authorization.scheme # "Bearer " THEN NoJwtStr
    ELSE [null |-> FALSE, text |-> Trim(authorization.rest)]

\* !jwtStr: null or the empty string.
Falsy(jwtStr) == jwtStr.null \/ jwtStr.text = <<>>

\* The outcomes of a verifier call: credentials, a typed AuthRequiredError,
\* or an error of another class that escapes the verifier.
Credentials(did) == [kind |-> "credentials", did |-> did]
Anonymous == [kind |-> "credentials", did |-> "null"]
AuthRequired(name) == [kind |-> "AuthRequiredError", name |-> name]
Escapes(name) == [kind |-> "Error", name |-> name]

\* parseB64UrlToJson(b64): JSON.parse of the segment's text.
parseB64UrlToJson(segment) ==
    IF Len(segment) = 1 /\ segment[1].p = "json"
      THEN [threw |-> FALSE, iss |-> segment[1].iss, exp |-> segment[1].exp]
    ELSE [threw |-> TRUE]

\* ui8.fromString(sig, 'base64url')
FromBase64Url(segment) ==
    IF Len(segment) = 1 /\ segment[1].p = "sig"
      THEN [threw |-> FALSE, sig |-> segment[1]]
    ELSE [threw |-> TRUE]

\* An expiry test that never fires.
NeverExpired(t, exp) == FALSE

\* The expiry test at whole seconds: floor(Date.now() / 1000) > exp.
ExpiredAtSecond(t, exp) == FloorSec(t) > exp

\* Date.now() / 1000 > payload.exp
Expired(t, exp) == t > exp * MsPerSec

\* A segment test that only rejects tokens that are too short.
TooFewSegments(parts) == Len(parts) < 3

\* parts.length !== 3
BadSegmentCount(parts) == Len(parts) # 3

\* A signature check that accepts every signature a well-formed key is
\* given.
verifySignatureAny(signingKey, msg, sig) ==
    IF signingKey = MalformedKey THEN [threw |-> TRUE]
    ELSE [threw |-> FALSE, valid |-> TRUE]

\* verifyJwt up to its first await: a failure, or the resolution to wait for.
verifyJwtStart(text, t) ==
    LET parts == SplitDots(text) IN
    IF BadSegmentCount(parts) THEN AuthRequired("BadJwt")
    ELSE LET payload == parseB64UrlToJson(parts[2]) IN
         IF payload.threw THEN Escapes("SyntaxError")
         ELSE IF Expired(t, payload.exp) THEN AuthRequired("JwtExpired")
         ELSE LET sigBytes == FromBase64Url(parts[3]) IN
              IF sigBytes.threw THEN Escapes("SyntaxError")
              ELSE [kind |-> "await", iss |-> payload.iss,
                    msg |-> parts[1] \o <<Dot>> \o parts[2],
                    sig |-> sigBytes.sig]

\* crypto.verifySignature(signingKey, msgBytes, sigBytes)
verifySignature(signingKey, msg, sig) ==
    IF signingKey = MalformedKey THEN [threw |-> TRUE]
    ELSE [threw |-> FALSE, valid |-> sig.key = signingKey /\ sig.msg = msg]

\* verifyJwt after the resolution: a rejected resolution escapes as it is.
verifyJwtFinish(wait, got) ==
    IF got.kind = "error" THEN Escapes("ResolverError")
    ELSE LET v == verifySignature(got.signingKey, wait.msg, wait.sig) IN
         IF v.threw THEN AuthRequired("BadJwtSignature")
         ELSE IF ~v.valid THEN AuthRequired("BadJwtSig")
         ELSE Credentials(wait.iss)

\* authVerifier up to its first await.
authVerifierStart(header, t) ==
    LET jwtStr == getJwtStrFromReq(header) IN
    IF Falsy(jwtStr) THEN AuthRequired("MissingJwt")
    ELSE verifyJwtStart(jwtStr.text, t)

\* An optional verifier that answers anonymous whenever there is no token.
authOptionalVerifierLenient(header, t) ==
    IF Falsy(getJwtStrFromReq(header)) THEN Anonymous
    ELSE authVerifierStart(header, t)

\* !req.headers.authorization: no header, or an empty one.
NoAuthorization(header) ==
    header.kind = "absent" \/ (header.scheme = "" /\ header.rest = <<>>)

\* authOptionalVerifier up to its first await.
authOptionalVerifierStart(header, t) ==
    IF NoAuthorization(header) THEN Anonymous
    ELSE authVerifierStart(header, t)

Start(variant, header, t) ==
    IF variant = "optional" THEN authOptionalVerifierStart(header, t)
    ELSE authVerifierStart(header, t)

(***************************************************************************)
(* The resolver behind didResolver.resolveAtpData.  Its code is not part   *)
(* of these files; it is modelled from the specification: callers that     *)
(* miss the cache for one identity share one resolution in flight.  A      *)
(* resolution is named after the caller that started it.                   *)
(***************************************************************************)
ResolveOutcomes ==
    {[kind |-> "atpData", signingKey |-> k] : k \in Keys \cup {MalformedKey}}
    \cup {[kind |-> "error"]}

NoOutcome == [kind |-> "none"]

\* A resolver without the registry: every caller starts a resolution.
resolveAtpDataEach(p, did) ==
    [calls |-> calls \cup {[by |-> p, did |-> did]}, call |-> p]

\* resolveAtpData(did) for caller p: join the resolution in flight for the
\* identity, or start one.
resolveAtpData(p, did) ==
    IF \E c \in calls : c.did = did
      THEN [calls |-> calls, call |-> (CHOOSE c \in calls : c.did = did).by]
    ELSE [calls |-> calls \cup {[by |-> p, did |-> did]}, call |-> p]

Callers == 1..MaxCallers

\* Caller p hands a request to authVerifier or authOptionalVerifier, which
\* runs to its first await or to its end.
Receive(p, headers, variants) ==
    /\ proc[p].pc \in {"idle", "done"}
    /\ \E header \in headers, variant \in variants :
         LET r == Start(variant, header, now) IN
         IF r.kind = "await"
           THEN LET a == resolveAtpData(p, r.iss) IN
                /\ proc' = [proc EXCEPT ![p] =
                              [pc |-> "resolving", variant |-> variant,
                               req |-> header, at |-> now, wait |-> r,
                               call |-> a.call]]
                /\ calls' = a.calls
         ELSE /\ proc' = [proc EXCEPT ![p] =
                            [pc |-> "done", variant |-> variant, req |-> header,
                             at |-> now, got |-> NoOutcome, result |-> r]]
              /\ calls' = calls
    /\ UNCHANGED <<vcall, svcJwt, now, jwt, verified, adminVars, cacheVars>>

\* A resolution in flight settles: every caller waiting on it gets its
\* outcome.
ResolveDone ==
    /\ \E c \in calls, o \in ResolveOutcomes :
         /\ calls' = calls \ {c}
         /\ proc' = [p \in Callers |->
                       IF proc[p].pc = "resolving" /\ proc[p].call = c.by
                         THEN [pc |-> "resolved", variant |-> proc[p].variant,
                               req |-> proc[p].req, at |-> proc[p].at,
                               wait |-> proc[p].wait, got |-> o]
                       ELSE proc[p]]
    /\ UNCHANGED <<vcall, svcJwt, now, jwt, verified, adminVars, cacheVars>>

\* verifyJwt after the resolution: the signature is verified and the
\* verifier returns or throws.
Finish(p) ==
    /\ proc[p].pc = "resolved"
    /\ proc' = [proc EXCEPT ![p] =
                  [pc |-> "done", variant |-> proc[p].variant,
                   req |-> proc[p].req, at |-> proc[p].at, got |-> proc[p].got,
                   result |-> verifyJwtFinish(proc[p].wait, proc[p].got)]]
    /\ UNCHANGED <<vcall, svcJwt, now, jwt, verified, adminVars, cacheVars, calls>>

InitFed ==
    /\ now = 0
    /\ LocalIdle
    /\ AdminIdle
    /\ CacheIdle
    /\ FedIdle
    /\ VerifiersIdle
    /\ ServiceIdle

\* One caller, every request.
NextFed ==
    \/ TickTo
    \/ Receive(1, FedHeaders, {"required", "optional"})
    \/ ResolveDone
    \/ Finish(1)

SpecFed == InitFed /\ [][NextFed]_vars

\* Several callers, each with a well-formed token.
NextFlight ==
    \/ \E p \in Callers : Receive(p, FlightHeaders, {"required"})
    \/ ResolveDone
    \/ \E p \in Callers : Finish(p)

SpecFlight == InitFed /\ [][NextFlight]_vars
\* authVerifier from call to return: the request read at `t`, the issuer's
\* resolution settled as `got`.
authVerifier(header, t, got) ==
    LET r == authVerifierStart(header, t) IN
    IF r.kind = "await" THEN verifyJwtFinish(r, got) ELSE r

\* The calls that have returned or thrown.
Done == {p \in Callers : proc[p].pc = "done"}

\* The payload of the token of a finished call whose expiry was read.
Dated == {p \in Done :
            /\ ~Falsy(getJwtStrFromReq(proc[p].req))
            /\ Len(SplitDots(getJwtStrFromReq(proc[p].req).text)) = 3
            /\ ~parseB64UrlToJson(
                  SplitDots(getJwtStrFromReq(proc[p].req).text)[2]).threw}

PayloadOf(p) ==
    parseB64UrlToJson(SplitDots(getJwtStrFromReq(proc[p].req).text)[2])

\* The resolved key is the one that signed the token of call p.
RightKey(p) ==
    LET parts == SplitDots(getJwtStrFromReq(proc[p].req).text) IN
    /\ proc[p].got.kind = "atpData"
    /\ ~FromBase64Url(parts[3]).threw
    /\ FromBase64Url(parts[3]).sig.key = proc[p].got.signingKey
    /\ FromBase64Url(parts[3]).sig.msg = parts[1] \o <<Dot>> \o parts[2]

\* C3 as stated: a federated token whose expiry equals the current second is
\* not rejected as expired at any instant of that second.
C3_AcceptedWholeSecond ==
    \A p \in Dated :
        FloorSec(proc[p].at) = PayloadOf(p).exp
            => proc[p].result # AuthRequired("JwtExpired")

\* C3 amended: a federated token is accepted (given a correct signature)
\* when the verifier reads the clock no later than the first millisecond of
\* the second of its expiry, and is rejected as expired at every later
\* instant, the rest of that second and one second later included.
C3_ExpiryBoundary ==
    \A p \in Dated :
        /\ proc[p].at <= PayloadOf(p).exp * MsPerSec
             => /\ proc[p].result # AuthRequired("JwtExpired")
                /\ RightKey(p) => proc[p].result = Credentials(PayloadOf(p).iss)
        /\ proc[p].at > PayloadOf(p).exp * MsPerSec
             => proc[p].result = AuthRequired("JwtExpired")

\* A token verified at the very millisecond its expiry second begins, after
\* the clock has moved.
C3_Witness ==
    \E p \in Dated :
        /\ proc[p].at = PayloadOf(p).exp * MsPerSec
        /\ proc[p].at > 0
        /\ RightKey(p)
        /\ proc[p].result = Credentials(PayloadOf(p).iss)

\* C4 as stated: for every request that has an Authorization header the
\* optional verifier's outcome is the required verifier's outcome on the
\* same request, and anonymous is returned only without a header.
C4_OptionalAsRequired ==
    \A p \in Done :
        proc[p].variant = "optional" =>
            IF proc[p].req.kind = "absent" THEN proc[p].result = Anonymous
            ELSE /\ proc[p].result = authVerifier(proc[p].req, proc[p].at, proc[p].got)
                 /\ proc[p].result # Anonymous

\* C4 amended: the optional verifier returns anonymous when the request has
\* no Authorization header or an empty one; for every non-empty header its
\* outcome is the required verifier's outcome on the same request, never
\* anonymous.
C4_OptionalNonEmptyAsRequired ==
    \A p \in Done :
        proc[p].variant = "optional" =>
            IF NoAuthorization(proc[p].req) THEN proc[p].result = Anonymous
            ELSE /\ proc[p].result = authVerifier(proc[p].req, proc[p].at, proc[p].got)
                 /\ proc[p].result # Anonymous

\* The optional verifier has failed a request whose header is present but
\* carries no bearer token.
C4_Witness ==
    \E p \in Done :
        /\ proc[p].variant = "optional"
        /\ proc[p].req.kind = "value"
        /\ proc[p].req.scheme = "Basic "
        /\ proc[p].result = AuthRequired("MissingJwt")

\* C10: a failure inside the verification mechanism (the resolver raising,
\* or signature verification raising on a malformed key) ends the federated
\* verifier with an authentication failure, of a kind other than the
\* wrong-signature failure.
C10_MechanismFailureKind ==
    \A p \in Done :
        (proc[p].got.kind = "error"
           \/ (proc[p].got.kind = "atpData"
                 /\ proc[p].got.signingKey = MalformedKey))
            => /\ proc[p].result.kind = "AuthRequiredError"
               /\ proc[p].result.name # "BadJwtSig"

\* The resolutions in flight for one identity.
InFlight(did) == {c \in calls : c.did = did}

\* The callers waiting for the resolution of one identity.
Waiting(did) ==
    {p \in Callers : proc[p].pc = "resolving" /\ proc[p].wait.iss = did}

\* At most one resolution per identity, and every waiting caller is
\* attached to it.
OneInFlight ==
    \A did \in Dids :
        /\ Cardinality(InFlight(did)) <= 1
        /\ \A p \in Waiting(did) :
             \E c \in InFlight(did) : proc[p].call = c.by

\* A resolution that settles hands one outcome to every caller waiting for
\* its identity.
SharedOutcome ==
    \A c \in calls \ calls' :
        \E o \in ResolveOutcomes :
            \A p \in Waiting(c.did) :
                proc'[p].pc = "resolved" /\ proc'[p].got = o

\* C9: when several callers concurrently miss for the same identity, at most
\* one resolution call is in flight for that identity at any time, and all
\* of those callers receive that call's result.
C9_SingleFlight == [](OneInFlight) /\ [][SharedOutcome]_vars

\* Two callers wait for the same identity on one resolution.
C9_Witness ==
    \E p, q \in Callers :
        /\ p # q
        /\ proc[p].pc = "resolving"
        /\ q \in Waiting(proc[p].wait.iss)
        /\ proc[p].call = proc[q].call
        /\ Cardinality(InFlight(proc[p].wait.iss)) = 1
\* The failure kinds of the federated verifier.
Taxonomy == {"MissingJwt", "BadJwt", "JwtExpired", "BadJwtSignature", "BadJwtSig"}

\* C11: every failing call of the federated verifier, required or optional,
\* raises a typed authentication failure of one kind of the taxonomy; no
\* failure escapes as an error of another class.
C11_TypedFailures ==
    \A p \in Done :
        proc[p].result.kind # "credentials"
            => /\ proc[p].result.kind = "AuthRequiredError"
               /\ proc[p].result.name \in Taxonomy

\* The bearer text of the request of call p, and its segments.
TextOf(p) == getJwtStrFromReq(proc[p].req)
PartsOf(p) == SplitDots(TextOf(p).text)

\* The request of call p meets every condition of acceptance of identity x.
Acceptable(p, x) ==
    /\ ~Falsy(TextOf(p))
    /\ Len(PartsOf(p)) = 3
    /\ ~parseB64UrlToJson(PartsOf(p)[2]).threw
    /\ parseB64UrlToJson(PartsOf(p)[2]).iss = x
    /\ proc[p].at <= parseB64UrlToJson(PartsOf(p)[2]).exp * MsPerSec
    /\ proc[p].got.kind = "atpData"
    /\ proc[p].got.signingKey \in Keys
    /\ PartsOf(p)[3] = <<Sig(proc[p].got.signingKey,
                             PartsOf(p)[1] \o <<Dot>> \o PartsOf(p)[2])>>

\* C12: the federated verifier returns the identity x exactly when the
\* bearer token has three segments, its payload names x as issuer, its
\* expiry had not passed when the verifier read the clock, the resolver
\* returned a signing key for x and the signature over the first two
\* segments verifies against that key; otherwise no credential is returned.
C12_CredentialOnlyIfVerified ==
    \A p \in Done : \A x \in Dids :
        (proc[p].result = Credentials(x)) <=> Acceptable(p, x)

\* The verifier has returned bob's identity for a token read after the
\* clock has moved, signed with the key the resolver gave for bob.
C12_Witness ==
    \E p \in Done :
        /\ proc[p].result = Credentials("did:plc:bob")
        /\ proc[p].at > 0
        /\ proc[p].got = [kind |-> "atpData", signingKey |-> "key2"]
        /\ Len(PartsOf(p)) = 3

\* C13 as stated: every bearer value whose split on '.' does not yield
\* three segments fails with BadJwt.
C13_NotThreeIsBadJwt ==
    \A p \in Done :
        (/\ proc[p].req.kind = "value"
         /\ proc[p].req.scheme = "Bearer "
         /\ Len(SplitDots(Trim(proc[p].req.rest))) # 3)
            => proc[p].result = AuthRequired("BadJwt")

\* C13 amended: every bearer value that is not empty once trimmed and whose
\* split on '.' does not yield three segments fails with BadJwt; an empty
\* or blank bearer value fails with MissingJwt.
C13_NonEmptyNotThreeIsBadJwt ==
    \A p \in Done :
        (/\ proc[p].req.kind = "value"
         /\ proc[p].req.scheme = "Bearer "
         /\ Len(SplitDots(Trim(proc[p].req.rest))) # 3)
            => IF Trim(proc[p].req.rest) = <<>>
                 THEN proc[p].result = AuthRequired("MissingJwt")
               ELSE proc[p].result = AuthRequired("BadJwt")

\* A bearer value of four segments has failed with BadJwt.
C13_Witness ==
    \E p \in Done :
        /\ proc[p].req.kind = "value"
        /\ proc[p].req.scheme = "Bearer "
        /\ Len(SplitDots(Trim(proc[p].req.rest))) = 4
        /\ proc[p].result = AuthRequired("BadJwt")

\* Call p has called the resolver.
Resolved(p) ==
    \/ proc[p].pc \in {"resolving", "resolved"}
    \/ proc[p].pc = "done" /\ proc[p].got # NoOutcome

\* The resolver is called only for a token of three segments that has not
\* expired.
ResolveOnlyChecked ==
    \A p \in Callers :
        Resolved(p) =>
            /\ ~Falsy(TextOf(p))
            /\ Len(PartsOf(p)) = 3
            /\ ~parseB64UrlToJson(PartsOf(p)[2]).threw
            /\ proc[p].at <= parseB64UrlToJson(PartsOf(p)[2]).exp * MsPerSec

\* A verification that has called the resolver does not call it again: it
\* waits, gets the outcome, ends.
ResolveOnce ==
    \A p \in Callers :
        /\ proc[p].pc = "resolving" => proc'[p].pc \in {"resolving", "resolved"}
        /\ proc[p].pc = "resolved" => proc'[p].pc \in {"resolved", "done"}
        /\ (proc[p].pc = "resolved" /\ proc'[p].pc = "done")
              => proc'[p].got = proc[p].got /\ calls' = calls

\* C19: the federated verifier calls the resolver at most once per
\* verification and only after the segment-count and expiry checks have
\* passed; a request without bearer token, with a token not of three
\* segments or with an expired token causes no resolver call.
C19_ResolveAfterChecks == [](ResolveOnlyChecked) /\ [][ResolveOnce]_vars

\* An expired token has been refused without a resolver call.
C19_Witness ==
    \E p \in Done :
        /\ proc[p].result = AuthRequired("JwtExpired")
        /\ proc[p].got = NoOutcome
        /\ calls = {}
(***************************************************************************)
(* ServerAuth.getCredentials, verifyUser and the local verifiers.          *)
(***************************************************************************)
\* The Authorization headers the local verifiers are given: none, another
\* scheme, 'Bearer ' with nothing after it, 'Bearer ' and a token.
NoHeader == [scheme |-> "absent"]
BasicHeader == [scheme |-> "Basic "]
EmptyToken == [kind |-> "empty"]
Bearer(token) == [scheme |-> "Bearer ", token |-> token]

\* A subject that is a handle, not a did.
Handle == "alice.test"

\* The tokens a caller can present as bearer: those of Presentable, and a
\* token this server signed for a subject that is no did.
Bearable ==
    Presentable
    \cup (IF jwt = NoToken THEN {} ELSE {[jwt EXCEPT !.sub = Handle]})

LocalHeaders ==
    {NoHeader, BasicHeader, Bearer(EmptyToken)}
    \cup {Bearer(token) : token \in Bearable}

\* getToken(req): null (NoToken) unless the header starts with 'Bearer '.
getToken(header) ==
    IF header.scheme # "Bearer " THEN NoToken ELSE header.token

\* sub.startsWith('did:')
StartsWithDid(sub) == sub \in Dids

NullCreds == [kind |-> "null"]
Creds(did, scope) == [kind |-> "creds", did |-> did, scope |-> scope]
Throws(error, name) == [kind |-> "threw", error |-> error, name |-> name]

\* getCredentials(req, scopes): null without a token, the credentials of a
\* verified token, or the InvalidRequestError of verifyToken.
getCredentials(header, scopes, t) ==
    LET token == getToken(header) IN
    IF token \in {NoToken, EmptyToken} THEN NullCreds
    ELSE LET v == verifyToken(token, scopes, t) IN
         IF ~v.ok THEN Throws(v.error, v.name)
         ELSE IF ~StartsWithDid(v.payload.sub)
           THEN Throws("InvalidRequestError", "InvalidToken")
         ELSE Creds(v.payload.sub, v.payload.scope)

\* getCredentialsOrThrow(req, scopes)
getCredentialsOrThrow(header, scopes, t) ==
    LET creds == getCredentials(header, scopes, t) IN
    IF creds = NullCreds THEN Throws("AuthRequiredError", "AuthenticationRequired")
    ELSE creds

\* verifyUser(req, did, scopes)
verifyUser(header, did, scopes, t) ==
    LET authorized == getCredentials(header, scopes, t) IN
    IF authorized.kind = "threw" THEN authorized
    ELSE Returned(authorized # NullCreds /\ authorized.did = did)

Verifiers == {"accessVerifier", "accessVerifierNotAppPassword",
              "accessVerifierCheckTakedown", "refreshVerifier"}

\* Verifiers that pass an empty allow-list.
VerifierScopesNone(verifier) == {}

\* The allow-list each verifier passes to getCredentialsOrThrow.
VerifierScopes(verifier) ==
    IF verifier = "refreshVerifier" THEN {Refresh}
    ELSE IF verifier = "accessVerifierNotAppPassword" THEN {Access}
    ELSE {Access, AppPass}

Output(creds, header) ==
    [kind |-> "output", credentials |-> creds, artifacts |-> getToken(header)]

\* services.account(db).getAccount(did, true): no record, or the account
\* with its takedown mark.
NoActor == [kind |-> "absent"]
Account(did, takedownId) ==
    [kind |-> "account", did |-> did, takedownId |-> takedownId]

\* softDeleted(actor)
softDeleted(actor) == actor.takedownId # "null"

\* A gate that lets a request through when there is no account record.
BlockedIfMarked(actor) == actor # NoActor /\ softDeleted(actor)

\* !actor || softDeleted(actor)
Blocked(actor) == actor = NoActor \/ softDeleted(actor)

\* A verifier from call to end: the getAccount calls it made, and what it
\* returned or threw.  `actor` is what getAccount answers.
RunVerifier(verifier, header, t, actor) ==
    LET creds == getCredentialsOrThrow(header, VerifierScopes(verifier), t) IN
    IF creds.kind = "threw" THEN [lookups |-> <<>>, out |-> creds]
    ELSE IF verifier # "accessVerifierCheckTakedown"
      THEN [lookups |-> <<>>, out |-> Output(creds, header)]
    ELSE [lookups |-> <<creds.did>>,
          out |-> IF Blocked(actor)
                    THEN Throws("AuthRequiredError", "AccountTakedown")
                  ELSE Output(creds, header)]

NoCall == [kind |-> "none"]

\* The did of the token of a request, if it has one.
SubjectOf(header) ==
    IF header.scheme = "Bearer " /\ header.token.kind = "object"
      THEN header.token.sub
    ELSE "none"

\* accessVerifier, accessVerifierNotAppPassword or refreshVerifier is given
\* a request.  One call is observed at a time.
CallVerifier ==
    /\ vcall = NoCall
    /\ \E verifier \in Verifiers \ {"accessVerifierCheckTakedown"},
          header \in LocalHeaders :
         LET run == RunVerifier(verifier, header, now, NoActor) IN
         vcall' = [kind |-> "verifier", verifier |-> verifier, req |-> header,
                   at |-> now, actor |-> NoActor, lookups |-> run.lookups,
                   out |-> run.out]
    /\ UNCHANGED <<now, jwt, verified, adminVars, cacheVars, fedVars, svcJwt>>

\* accessVerifierCheckTakedown is given a request; the account store holds
\* no record, an account, or an account taken down for the token's subject.
CallCheckTakedown ==
    /\ vcall = NoCall
    /\ \E header \in LocalHeaders, mark \in {"absent", "null", "takedown1"} :
         LET actor == IF mark = "absent" THEN NoActor
                      ELSE Account(SubjectOf(header), mark)
             run == RunVerifier("accessVerifierCheckTakedown", header, now, actor) IN
         vcall' = [kind |-> "verifier",
                   verifier |-> "accessVerifierCheckTakedown", req |-> header,
                   at |-> now, actor |-> actor, lookups |-> run.lookups,
                   out |-> run.out]
    /\ UNCHANGED <<now, jwt, verified, adminVars, cacheVars, fedVars, svcJwt>>

\* The allow-lists verifyUser is called with.
UserScopes == {{}, {Access}, {Access, AppPass}, {Refresh}}

\* verifyUser(req, did, scopes)
CallVerifyUser ==
    /\ vcall = NoCall
    /\ \E header \in LocalHeaders, did \in Dids, scopes \in UserScopes :
         vcall' = [kind |-> "verifyUser", req |-> header, did |-> did,
                   scopes |-> scopes, at |-> now,
                   out |-> verifyUser(header, did, scopes, now)]
    /\ UNCHANGED <<now, jwt, verified, adminVars, cacheVars, fedVars, svcJwt>>

NextVerifiers ==
    \/ TickTo
    \/ CreateAccessToken
    \/ CreateRefreshToken
    \/ CallVerifier
    \/ CallCheckTakedown
    \/ CallVerifyUser

SpecVerifiers == InitLocal /\ [][NextVerifiers]_vars
\* The request carries a token this server signed for a did, unexpired at t.
ValidBearer(header, t) ==
    /\ header.scheme = "Bearer "
    /\ header.token.kind = "object"
    /\ header.token.secret = JwtSecret
    /\ FloorSec(t) < header.token.exp
    /\ header.token.sub \in Dids

\* The request carries no bearer token at all.
NoBearer(header) ==
    header.scheme # "Bearer " \/ header.token = EmptyToken

TakedownCall ==
    vcall.kind = "verifier" /\ vcall.verifier = "accessVerifierCheckTakedown"

\* C14: accessVerifierCheckTakedown looks the account up only after the
\* credential check (scope Access or AppPass) has succeeded; with a valid
\* token it fails with AccountTakedown when the account is taken down or has
\* no record and returns the credentials otherwise; a request whose token
\* is invalid triggers no account lookup.
C14_TakedownAfterCredentials ==
    TakedownCall =>
        IF ValidBearer(vcall.req, vcall.at)
             /\ vcall.req.token.scope \in {Access, AppPass}
          THEN /\ vcall.lookups = <<vcall.req.token.sub>>
               /\ (vcall.actor = NoActor \/ vcall.actor.takedownId # "null")
                    => vcall.out = Throws("AuthRequiredError", "AccountTakedown")
               /\ (vcall.actor # NoActor /\ vcall.actor.takedownId = "null")
                    => vcall.out = [kind |-> "output",
                                    credentials |-> Creds(vcall.req.token.sub,
                                                          vcall.req.token.scope),
                                    artifacts |-> vcall.req.token]
          ELSE /\ vcall.lookups = <<>>
               /\ vcall.out.kind = "threw"
               /\ vcall.out.name # "AccountTakedown"

\* A valid AppPass token of an account with no record has been refused with
\* AccountTakedown after one lookup.
C14_Witness ==
    /\ TakedownCall
    /\ ValidBearer(vcall.req, vcall.at)
    /\ vcall.at > 0
    /\ vcall.req.token.scope = AppPass
    /\ vcall.actor = NoActor
    /\ vcall.lookups = <<vcall.req.token.sub>>
    /\ vcall.out = Throws("AuthRequiredError", "AccountTakedown")

\* C15: verifyUser always returns a boolean: true exactly when the request
\* carries a valid bearer token of an allowed scope whose subject is the
\* identity, false in every other case, invalid, expired and wrong-scope
\* tokens included.
C15_VerifyUserBoolean ==
    vcall.kind = "verifyUser" =>
        /\ vcall.out.kind = "returned"
        /\ vcall.out.value =
             (/\ ValidBearer(vcall.req, vcall.at)
              /\ (vcall.scopes = {} \/ vcall.req.token.scope \in vcall.scopes)
              /\ vcall.req.token.sub = vcall.did)

\* The scopes each verifier must refuse.
Refused(verifier) ==
    IF verifier = "refreshVerifier" THEN {Access, AppPass}
    ELSE IF verifier = "accessVerifierNotAppPassword" THEN {Refresh, AppPass}
    ELSE {Refresh}

\* C18: the local verifiers keep the scopes apart: a valid Refresh token is
\* rejected by accessVerifier, accessVerifierNotAppPassword and
\* accessVerifierCheckTakedown, a valid AppPass token by
\* accessVerifierNotAppPassword and refreshVerifier, a valid Access token by
\* refreshVerifier; each verifier raises the auth-required failure when the
\* request carries no bearer token.
C18_ScopesSeparated ==
    vcall.kind = "verifier" =>
        /\ (ValidBearer(vcall.req, vcall.at)
              /\ vcall.req.token.scope \in Refused(vcall.verifier))
             => /\ vcall.out = Throws("InvalidRequestError", "InvalidToken")
                /\ vcall.lookups = <<>>
        /\ NoBearer(vcall.req)
             => /\ vcall.out.kind = "threw"
                /\ vcall.out.error = "AuthRequiredError"

\* refreshVerifier has refused a valid Access token.
C18_Witness ==
    /\ vcall.kind = "verifier"
    /\ vcall.verifier = "refreshVerifier"
    /\ ValidBearer(vcall.req, vcall.at)
    /\ vcall.at > 0
    /\ vcall.req.token.scope = Access
    /\ vcall.out = Throws("InvalidRequestError", "InvalidToken")
(***************************************************************************)
(* createServiceJwt, and the federated verifier on the tokens it makes.    *)
(***************************************************************************)
\* MINUTE of @atproto/common, in milliseconds.
Minute == 60000

\* An identity whose text contains a '.'.
WebDid == "did:web:example.com"
ServiceDids == Dids \cup {WebDid}

\* The dot-free stretches of the text of an identity.
Labels(did) ==
    IF did = WebDid THEN <<"did:web:example", "com">> ELSE <<did>>

\* JSON.stringify({iss, exp}): one dot-free piece when the issuer has no
\* '.', else the pieces between the dots of the issuer, none of them JSON
\* on its own.
JsonStringify(payload) ==
    IF Len(Labels(payload.iss)) = 1
      THEN <<JsonPayload(payload.iss, payload.exp)>>
    ELSE <<[p |-> "jsonpart", iss |-> payload.iss, exp |-> payload.exp, part |-> 1],
           Dot,
           [p |-> "jsonpart", iss |-> payload.iss, exp |-> payload.exp, part |-> 2]>>

\* jsonToB64Url(json): the utf8 bytes of JSON.stringify(json) read back as
\* utf8, which is the JSON text itself.
jsonToB64Url(text) == text

\* An expiry one second further than the minute.
ServiceExpLate(t) == FloorSec(t + Minute) + 1

\* Math.floor((Date.now() + MINUTE) / 1000)
ServiceExp(t) == FloorSec(t + Minute)

\* createServiceJwt(accountDid, keypair) at time t.
createServiceJwt(accountDid, keypair, t) ==
    LET payload == [iss |-> accountDid, exp |-> ServiceExp(t)]
        toSignStr == jsonToB64Url(<<Hdr>>) \o <<Dot>>
                     \o jsonToB64Url(JsonStringify(payload)) IN
    toSignStr \o <<Dot, Sig(keypair, toSignStr)>>

NoServiceJwt == [kind |-> "none"]

\* The instants the clock is read at around the issue of a service token
\* and a minute later.
ServiceClockPoints ==
    {base + o : base \in {0, Minute}, o \in {0, 1, MsPerSec, MsPerSec + 1}}

TickService ==
    /\ \E t \in ServiceClockPoints : t > now /\ now' = t
    /\ UNCHANGED <<jwt, verified, adminVars, cacheVars, fedVars, vcall, svcJwt>>

\* createServiceJwt(accountDid, keypair).  One token is followed at a time:
\* the verification of the previous one is forgotten.
CreateServiceJwt ==
    /\ proc[1].pc \in {"idle", "done"}
    /\ \E accountDid \in ServiceDids, keypair \in Keys :
         svcJwt' = [kind |-> "token", iss |-> accountDid, key |-> keypair,
                    at |-> now, exp |-> ServiceExp(now),
                    text |-> createServiceJwt(accountDid, keypair, now)]
    /\ proc' = [proc EXCEPT ![1] = [pc |-> "idle"]]
    /\ UNCHANGED <<now, jwt, verified, adminVars, cacheVars, calls, vcall>>

\* The request that presents the service token as bearer.
ServiceHeaders ==
    IF svcJwt = NoServiceJwt THEN {}
    ELSE {HeaderValue("Bearer ", svcJwt.text)}

NextService ==
    \/ TickService
    \/ CreateServiceJwt
    \/ Receive(1, ServiceHeaders, {"required"})
    \/ ResolveDone
    \/ Finish(1)

SpecService == InitFed /\ [][NextService]_vars

\* The calls that were given the service token and have ended.
Presented ==
    {p \in Done : svcJwt # NoServiceJwt
                  /\ proc[p].req = HeaderValue("Bearer ", svcJwt.text)}

\* C16: a token made by createServiceJwt at time t carries an expiry at
\* most 60 seconds after t, whatever the identity and the keypair, and the
\* federated verifier accepts it at no clock reading later than t + 60 s.
C16_ServiceTokenMinute ==
    svcJwt # NoServiceJwt =>
        /\ svcJwt.exp * MsPerSec <= svcJwt.at + Minute
        /\ \A p \in Presented :
             proc[p].result.kind = "credentials"
                => proc[p].at <= svcJwt.at + Minute

\* A service token made after the clock has moved is accepted exactly one
\* minute after its issue.
C16_Witness ==
    /\ svcJwt # NoServiceJwt
    /\ svcJwt.at > 0
    /\ \E p \in Presented :
         /\ proc[p].at = svcJwt.at + Minute
         /\ proc[p].result = Credentials(svcJwt.iss)

\* C20: for every issuer identity, identities with '.' included, and every
\* keypair, the token of createServiceJwt has three dot-separated segments
\* and, presented at once with a resolver that maps the issuer to the
\* keypair's public key, is accepted with that issuer identity.
C20_ServiceRoundTrip ==
    svcJwt # NoServiceJwt =>
        /\ Len(SplitDots(svcJwt.text)) = 3
        /\ \A p \in Presented :
             (/\ proc[p].at = svcJwt.at
              /\ proc[p].got.kind # "error"
              /\ proc[p].got.kind = "atpData"
                   => proc[p].got.signingKey = svcJwt.key)
                => proc[p].result = Credentials(svcJwt.iss)
====
